---- MODULE Spec2Model ----
(***************************************************************************)
(* Connection graph protocol of core/connection.js: connect, disconnect,   *)
(* dispose and setCheck on Blockly.Connection, with the orphan resolution  *)
(* and shadow respawn cascades computed as the code computes them.         *)
(*                                                                         *)
(* A block is a pair <<name, index>>; a connection is a triple             *)
(* <<name, index, slot>> owned by the block <<name, index>>.  The blocks   *)
(* of a workspace, and which connections each of them has, are fixed at    *)
(* construction; only shadow blocks are created and destroyed.             *)
(***************************************************************************)
EXTENDS Integers, Sequences, FiniteSets, TLC

\* Number of shadow blocks of each shape that may be alive at once.
MaxShadows == 2
\* Number of deferred bump callbacks that may be pending at once.
MaxTimers == 1
\* Number of connections of live blocks that may be disposed of.
MaxDisposed == 1
\* Number of connections whose check may differ from the constructed one.
MaxSetCheck == 1

INPUT_VALUE == "INPUT_VALUE"
OUTPUT_VALUE == "OUTPUT_VALUE"
NEXT_STATEMENT == "NEXT_STATEMENT"
PREVIOUS_STATEMENT == "PREVIOUS_STATEMENT"

NoBlock == <<"null", 0>>
NoConn == <<"null", 0, "null">>
\* Result of a walk that never ends (the loop revisits a block).
LoopConn == <<"loop", 0, "loop">>
NoDom == [shape |-> "null", field |-> 0]
NoCheck == [isNull |-> TRUE, tags |-> <<>>]
NoErr == "none"

Tags(t) == [isNull |-> FALSE, tags |-> t]

(***************************************************************************)
(* The blocks.  Two workspaces are modelled, one of value blocks and one   *)
(* of statement blocks:                                                    *)
(*   P  one value input                                                    *)
(*   X  output (check Number), no input                                    *)
(*   N  output, a dummy input and one value input                          *)
(*   M  output, two value inputs (the second with check String)            *)
(*   R  next only;  A, B  previous and next (B's next has check String)    *)
(*   U  previous only (check Number)                                       *)
(*   hv k / hs k  shadow blocks with an output / a previous connection     *)
(***************************************************************************)
RowBlocks == {<<"P", 0>>, <<"X", 0>>, <<"N", 0>>, <<"M", 0>>}
StackBlocks == {<<"R", 0>>, <<"A", 0>>, <<"B", 0>>, <<"U", 0>>}
ValueShadows == {<<"hv", k>> : k \in 1..MaxShadows}
StmtShadows == {<<"hs", k>> : k \in 1..MaxShadows}
ShadowBlocks == ValueShadows \cup StmtShadows
Blocks == RowBlocks \cup StackBlocks \cup ShadowBlocks

isShadow(b) == b \in ShadowBlocks

outputConnection(b) ==
  IF b[1] \in {"X", "N", "M", "hv"} THEN <<b[1], b[2], "out">> ELSE NoConn

previousConnection(b) ==
  IF b[1] \in {"A", "B", "U", "hs"} THEN <<b[1], b[2], "prev">> ELSE NoConn

nextConnection(b) ==
  IF b[1] \in {"R", "A", "B"} THEN <<b[1], b[2], "next">> ELSE NoConn

inputList(b) ==
  CASE b[1] = "P" -> << <<"P", 0, "in1">> >>
    [] b[1] = "N" -> << NoConn, <<"N", 0, "in1">> >>
    [] b[1] = "M" -> << <<"M", 0, "in1">>, <<"M", 0, "in2">> >>
    [] OTHER -> << >>

ConnsOf(b) ==
  ({outputConnection(b), previousConnection(b), nextConnection(b)}
     \cup {inputList(b)[i] : i \in 1..Len(inputList(b))}) \ {NoConn}

Conns == UNION {ConnsOf(b) : b \in Blocks}

getSourceBlock(c) == <<c[1], c[2]>>

type(c) ==
  CASE c[3] = "out" -> OUTPUT_VALUE
    [] c[3] = "prev" -> PREVIOUS_STATEMENT
    [] c[3] = "next" -> NEXT_STATEMENT
    [] OTHER -> INPUT_VALUE

isSuperior(c) == type(c) = INPUT_VALUE \/ type(c) = NEXT_STATEMENT

\* Checks given to the connections when their blocks are constructed.
InitCheck(c) ==
  CASE c = <<"X", 0, "out">> -> Tags(<<"Number">>)
    [] c = <<"M", 0, "in2">> -> Tags(<<"String">>)
    [] c = <<"B", 0, "next">> -> Tags(<<"String">>)
    [] c = <<"U", 0, "prev">> -> Tags(<<"Number">>)
    [] OTHER -> NoCheck

\* The workspace "pair" holds the blocks P, X and N only.
PairBlocks == {<<"P", 0>>, <<"X", 0>>, <<"N", 0>>}

WorldBlocks(w) ==
  CASE w = "row" -> RowBlocks \cup ValueShadows
    [] w = "pair" -> PairBlocks \cup ValueShadows
    [] OTHER -> StackBlocks \cup StmtShadows

WorldShape(w) == IF w = "stack" THEN "stmt" ELSE "value"

VARIABLES
  world,            \* which workspace was constructed
  targetConnection, \* Connection.targetConnection
  parent_,          \* Block.parent_
  shadowDom_,       \* Connection.shadowDom_
  check_,           \* Connection.check_
  disposed,         \* Connection.disposed
  workspace,        \* Block.workspace is set (the block is alive)
  field,            \* field value of a shadow block
  group,            \* Blockly.Events group: 0 none, 1 opened by the caller
  recordUndo,       \* Blockly.Events.recordUndo
  timers            \* pending setTimeout callbacks of connect_

vars == <<world, targetConnection, parent_, shadowDom_, check_, disposed,
          workspace, field, group, recordUndo, timers>>


(***************************************************************************)
(* The state the operations work on, as one record s:                      *)
(*   target, parent, shadowDom, check, disposed, workspace, field, group,  *)
(*   recordUndo, timers   the variables above                              *)
(*   enabled    Blockly.Events.isEnabled()                                 *)
(*   events     the move events fired during the call, in order            *)
(*   err        the message of the Error thrown, or NoErr                  *)
(*   nGroups    how many groups setGroup(true) opened during the call      *)
(*   consulted  how often connect asked the checker (line 318)             *)
(*   attach     what connectReciprocally_ found each time it wrote a link  *)
(*   recip      reciprocity held at every start and end of a public call   *)
(***************************************************************************)
\* e: Blockly.Events.isEnabled() when the call is made.  It decides only
\* whether move events are queued, so the calls of Next are made with events
\* enabled and the claims about events take both values.
StWith(e) ==
  [target |-> targetConnection, parent |-> parent_, shadowDom |-> shadowDom_,
   check |-> check_, disposed |-> disposed, workspace |-> workspace,
   field |-> field, group |-> group, recordUndo |-> recordUndo,
   enabled |-> e, timers |-> timers,
   events |-> << >>, err |-> NoErr, nGroups |-> 0, nClosed |-> 0, consulted |-> 0,
   attach |-> << >>, moves |-> << >>, notified |-> << >>, recip |-> TRUE]

St == StWith(TRUE)

Failed(s) == s.err # NoErr

Throw(s, msg) == [s EXCEPT !.err = msg]

Reciprocal(target) ==
  \A a \in Conns : target[a] # NoConn => target[target[a]] = a

\* The state as a caller sees it when a public operation starts or returns.
Observe(s) == [s EXCEPT !.recip = s.recip /\ Reciprocal(s.target)]

isConnected(s, c) == s.target[c] # NoConn

targetBlock(s, c) ==
  IF isConnected(s, c) THEN getSourceBlock(s.target[c]) ELSE NoBlock

getShadowDom(s, c) == s.shadowDom[c]

setShadowDom(s, c, shadow) == [s EXCEPT !.shadowDom[c] = shadow]

getNextBlock(s, b) ==
  IF nextConnection(b) = NoConn THEN NoBlock
  ELSE targetBlock(s, nextConnection(b))

setParent(s, b, newParent) ==
  [s EXCEPT !.parent[b] = newParent,
            !.moves = Append(s.moves, [block |-> b, oldParent |-> s.parent[b],
                                       newParent |-> newParent])]

(***************************************************************************)
(* Blockly.Events: setGroup(true) makes a new group id, setGroup(false)    *)
(* closes the group; a move event carries the group current when it is     *)
(* constructed and is queued by fire only while events are enabled.        *)
(***************************************************************************)
setGroupTrue(s) ==
  [s EXCEPT !.group = 2 + s.nGroups, !.nGroups = s.nGroups + 1]

setGroupFalse(s) == [s EXCEPT !.group = 0, !.nClosed = s.nClosed + 1]

BlockMove(s, b) ==
  [block |-> b, group |-> s.group, oldParent |-> s.parent[b], newParent |-> NoBlock]

fire(s, event) ==
  [s EXCEPT !.events = Append(s.events, [event EXCEPT !.newParent = s.parent[event.block]])]

(***************************************************************************)
(* The connection checker of the workspace (IConnectionChecker).           *)
(***************************************************************************)
OPPOSITE_TYPE(t) ==
  CASE t = INPUT_VALUE -> OUTPUT_VALUE
    [] t = OUTPUT_VALUE -> INPUT_VALUE
    [] t = NEXT_STATEMENT -> PREVIOUS_STATEMENT
    [] OTHER -> NEXT_STATEMENT

doSafetyChecks(s, a, b) ==
  /\ a # NoConn
  /\ b # NoConn
  /\ LET blockA == IF isSuperior(a) THEN getSourceBlock(a) ELSE getSourceBlock(b)
         blockB == IF isSuperior(a) THEN getSourceBlock(b) ELSE getSourceBlock(a)
     IN /\ blockA # blockB
        /\ type(b) = OPPOSITE_TYPE(type(a))
        /\ s.workspace[blockA] = s.workspace[blockB]
        /\ ~(isShadow(blockA) /\ ~isShadow(blockB))

doTypeChecks(s, a, b) ==
  \/ s.check[a].isNull
  \/ s.check[b].isNull
  \/ \E i \in 1..Len(s.check[a].tags) : \E j \in 1..Len(s.check[b].tags) :
       s.check[a].tags[i] = s.check[b].tags[j]

canConnect(s, a, b) == doSafetyChecks(s, a, b) /\ doTypeChecks(s, a, b)

(***************************************************************************)
(* Blockly.Xml: a shadow block is serialized to its shape and field value  *)
(* and a new block is built from that.  A new block takes the first block  *)
(* identity of its shape that is not in use.                               *)
(***************************************************************************)
ShapeOf(b) == IF b[1] = "hv" THEN "value" ELSE "stmt"

blockToDom(s, b) == [shape |-> ShapeOf(b), field |-> s.field[b]]

FreeShadows(s, shape) ==
  {b \in ShadowBlocks : ShapeOf(b) = shape /\ ~s.workspace[b]}

NewShadow(s, shape) ==
  IF FreeShadows(s, shape) = {} THEN NoBlock
  ELSE CHOOSE b \in FreeShadows(s, shape) :
         \A c \in FreeShadows(s, shape) : b[2] <= c[2]

domToBlock(s, dom, b) ==
  [s EXCEPT !.workspace[b] = TRUE,
            !.field[b] = dom.field,
            !.parent[b] = NoBlock,
            !.disposed = [c \in Conns |-> IF c \in ConnsOf(b) THEN FALSE ELSE s.disposed[c]],
            !.check = [c \in Conns |-> IF c \in ConnsOf(b) THEN NoCheck ELSE s.check[c]],
            !.shadowDom = [c \in Conns |-> IF c \in ConnsOf(b) THEN NoDom ELSE s.shadowDom[c]]]


(***************************************************************************)
(* connection.js.  Every operator takes the state and returns the state    *)
(* after the call; once err is set the callers return it unchanged, as a   *)
(* thrown Error unwinds them.                                              *)
(***************************************************************************)
\* call(s, f, a, b) is the call of f with the arguments a and b in state s;
\* the functions of connection.js call one another through it.
RECURSIVE call(_, _, _, _)
RECURSIVE singleConnection_(_, _, _, _, _)
RECURSIVE lastConnectionInRow(_, _, _, _)
RECURSIVE nextInRow(_, _, _, _)
RECURSIVE lastInStack(_, _, _)

\* connectReciprocally_ without line 348.
connectReciprocally_OneWay(s, first, second) ==
  [s EXCEPT !.target = [s.target EXCEPT ![first] = second],
            !.attach = Append(s.attach,
               [parent |-> first, child |-> second,
                parentWas |-> s.target[first], childWas |-> s.target[second]])]

connectReciprocally_(s, first, second) ==
  IF first = NoConn \/ second = NoConn
  THEN Throw(s, "Cannot connect null connections.")
  ELSE [s EXCEPT !.target = [s.target EXCEPT ![first] = second, ![second] = first],
                 !.attach = Append(s.attach,
                    [parent |-> first, child |-> second,
                     parentWas |-> s.target[first], childWas |-> s.target[second]])]

\* The loop of singleConnection_ from index i on, connection being the
\* eligible input found so far.
\* singleConnection_ without the check of lines 367-369: the last eligible
\* input is returned when there is more than one.
singleConnection_Last(s, block, orphanBlock, i, connection) ==
  IF i > Len(inputList(block)) THEN connection
  ELSE LET thisConnection == inputList(block)[i]
           output == outputConnection(orphanBlock)
       IN IF /\ thisConnection # NoConn
             /\ type(thisConnection) = INPUT_VALUE
             /\ canConnect(s, output, thisConnection)
          THEN singleConnection_(s, block, orphanBlock, i + 1, thisConnection)
          ELSE singleConnection_(s, block, orphanBlock, i + 1, connection)

singleConnection_(s, block, orphanBlock, i, connection) ==
  IF i > Len(inputList(block)) THEN connection
  ELSE LET thisConnection == inputList(block)[i]
           output == outputConnection(orphanBlock)
       IN IF /\ thisConnection # NoConn
             /\ type(thisConnection) = INPUT_VALUE
             /\ canConnect(s, output, thisConnection)
          THEN IF connection # NoConn THEN NoConn
               ELSE singleConnection_(s, block, orphanBlock, i + 1, thisConnection)
          ELSE singleConnection_(s, block, orphanBlock, i + 1, connection)

\* nextInRow without line 394: the loop stays at its block.
nextInRow_Stay(s, orphanBlock, visited, connection) ==
  IF connection = NoConn THEN NoConn
  ELSE LET nb == targetBlock(s, connection)
       IN IF nb = NoBlock \/ isShadow(nb) THEN connection
          ELSE LoopConn

\* visited: the blocks the loop has been at; coming back to one of them the
\* loop repeats forever, which LoopConn stands for.  nextInRow is lines
\* 393-398 with connection the result of singleConnection_ at this block.
nextInRow(s, orphanBlock, visited, connection) ==
  IF connection = NoConn THEN NoConn
  ELSE LET nb == targetBlock(s, connection)
       IN IF nb = NoBlock \/ isShadow(nb) THEN connection
          ELSE IF nb \in visited THEN LoopConn
          ELSE lastConnectionInRow(s, nb, orphanBlock, visited \cup {nb})

lastConnectionInRow(s, newBlock, orphanBlock, visited) ==
  nextInRow(s, orphanBlock, visited,
            singleConnection_(s, newBlock, orphanBlock, 1, NoConn))

\* The while loop of connect_ (lines 144-158): the block whose next
\* connection the orphan is offered, NoBlock when the stack ends in a block
\* without a next connection, <<"loop", 0>> when the loop never ends.
\* The while loop of connect_ leaving at its first block (line 148 never
\* taken).
lastInStack_NoWalk(s, newBlock, visited) ==
  IF nextConnection(newBlock) = NoConn THEN NoBlock ELSE newBlock

lastInStack(s, newBlock, visited) ==
  IF nextConnection(newBlock) = NoConn THEN NoBlock
  ELSE LET nextBlock == getNextBlock(s, newBlock)
       IN IF nextBlock # NoBlock /\ ~isShadow(nextBlock)
          THEN IF nextBlock \in visited THEN <<"loop", 0>>
               ELSE lastInStack(s, nextBlock, visited \cup {nextBlock})
          ELSE newBlock

\* disconnectInternal_ without line 452.
disconnectInternal_KeepParent(s, this, parentBlock, childBlock) ==
  LET event == BlockMove(s, childBlock)
      otherConnection == s.target[this]
      s1 == [s EXCEPT !.target = [s.target EXCEPT ![otherConnection] = NoConn,
                                                  ![this] = NoConn]]
  IN IF s.enabled THEN fire(s1, event) ELSE s1

\* disconnectInternal_ without line 450.
disconnectInternal_OneSide(s, this, parentBlock, childBlock) ==
  LET event == BlockMove(s, childBlock)
      s1 == [s EXCEPT !.target = [s.target EXCEPT ![this] = NoConn]]
      s2 == setParent(s1, childBlock, NoBlock)
  IN IF s.enabled THEN fire(s2, event) ELSE s2

\* disconnectInternal_ without the event of lines 444-447 and 453-456.
disconnectInternal_Silent(s, this, parentBlock, childBlock) ==
  LET otherConnection == s.target[this]
      s1 == [s EXCEPT !.target = [s.target EXCEPT ![otherConnection] = NoConn,
                                                  ![this] = NoConn]]
  IN setParent(s1, childBlock, NoBlock)

disconnectInternal_(s, this, parentBlock, childBlock) ==
  LET event == BlockMove(s, childBlock)
      otherConnection == s.target[this]
      s1 == [s EXCEPT !.target = [s.target EXCEPT ![otherConnection] = NoConn,
                                                  ![this] = NoConn]]
      s2 == setParent(s1, childBlock, NoBlock)
  IN IF s.enabled THEN fire(s2, event) ELSE s2

\* respawnShadow_ without the connect of lines 469-475.
respawnShadow_Unlinked(s, this) ==
  LET parentBlock == getSourceBlock(this)
      shadow == getShadowDom(s, this)
  IN IF s.workspace[parentBlock] /\ shadow # NoDom /\ s.recordUndo
     THEN LET blockShadow == NewShadow(s, shadow.shape)
          IN IF blockShadow = NoBlock THEN Throw(s, "OutOfShadows")
             ELSE domToBlock(s, shadow, blockShadow)
     ELSE s

respawnShadow_(s, this) ==
  LET parentBlock == getSourceBlock(this)
      shadow == getShadowDom(s, this)
  IN IF s.workspace[parentBlock] /\ shadow # NoDom /\ s.recordUndo
     THEN LET blockShadow == NewShadow(s, shadow.shape)
          IN IF blockShadow = NoBlock THEN Throw(s, "OutOfShadows")
             ELSE IF outputConnection(blockShadow) # NoConn
                     \/ previousConnection(blockShadow) # NoConn
             THEN call(domToBlock(s, shadow, blockShadow), "connect", this,
                       IF outputConnection(blockShadow) # NoConn
                       THEN outputConnection(blockShadow)
                       ELSE previousConnection(blockShadow))
             ELSE Throw(domToBlock(s, shadow, blockShadow),
                        "Child block does not have output or previous statement.")
     ELSE s

\* disconnect without the check of lines 410-412.
disconnect_NoBackCheck(s0, this) ==
  LET s == Observe(s0)
      otherConnection == s.target[this]
  IN IF otherConnection = NoConn
     THEN Throw(s, "Source connection not connected.")
     ELSE LET parentConnection == IF isSuperior(this) THEN this ELSE otherConnection
              parentBlock == getSourceBlock(parentConnection)
              childBlock == IF isSuperior(this) THEN getSourceBlock(otherConnection)
                            ELSE getSourceBlock(this)
              eventGroup == s.group
              s3 == call(disconnectInternal_(IF eventGroup = 0 THEN setGroupTrue(s) ELSE s,
                                             this, parentBlock, childBlock),
                         "respawnShadow_", parentConnection, NoConn)
          IN IF Failed(s3) THEN s3
             ELSE Observe(IF eventGroup = 0 THEN setGroupFalse(s3) ELSE s3)

disconnect(s0, this) ==
  LET s == Observe(s0)
      otherConnection == s.target[this]
  IN IF otherConnection = NoConn
     THEN Throw(s, "Source connection not connected.")
     ELSE IF s.target[otherConnection] # this
     THEN Throw(s, "Target connection not connected to source connection.")
     ELSE LET parentConnection == IF isSuperior(this) THEN this ELSE otherConnection
              parentBlock == getSourceBlock(parentConnection)
              childBlock == IF isSuperior(this) THEN getSourceBlock(otherConnection)
                            ELSE getSourceBlock(this)
              eventGroup == s.group
              s3 == call(disconnectInternal_(IF eventGroup = 0 THEN setGroupTrue(s) ELSE s,
                                             this, parentBlock, childBlock),
                         "respawnShadow_", parentConnection, NoConn)
          IN IF Failed(s3) THEN s3
             ELSE Observe(IF eventGroup = 0 THEN setGroupFalse(s3) ELSE s3)

\* Block.unplug: the block leaves its parent through its output connection,
\* or else through its previous connection.
unplug(s, b) ==
  LET c == IF outputConnection(b) # NoConn THEN outputConnection(b)
           ELSE previousConnection(b)
  IN IF c # NoConn /\ isConnected(s, c) THEN call(s, "disconnect", c, NoConn) ELSE s

\* Block.dispose(false) of a block without children: unplug, leave the
\* workspace, dispose of the connections.
blockDispose(s, b) ==
  LET s1 == call(s, "unplug", b, NoConn)
      c == IF outputConnection(b) # NoConn THEN outputConnection(b)
           ELSE previousConnection(b)
  IN IF Failed(s1) THEN s1
     ELSE call([s1 EXCEPT !.workspace[b] = FALSE], "dispose", c, NoConn)

dispose(s0, this) ==
  LET s == Observe(s0)
      tb == targetBlock(s, this)
      s3 == IF isConnected(s, this)
            THEN call(setShadowDom(s, this, NoDom),
                      IF isShadow(tb) THEN "blockDispose" ELSE "unplug", tb, NoConn)
            ELSE s
  IN IF Failed(s3) THEN s3 ELSE Observe([s3 EXCEPT !.disposed[this] = TRUE])

\* bumpOrphan without the disconnect of line 162.
bumpOrphan_Linked(s, parentConnection, orphanBlock) ==
  LET s1 == s
  IN IF Failed(s1) THEN s1
     ELSE IF s1.recordUndo
     THEN [s1 EXCEPT !.timers = s1.timers \cup
             {[orphan |-> orphanBlock, group |-> s1.group]}]
     ELSE s1

\* Lines 160-179: the orphan found no new home.
bumpOrphan(s, parentConnection, orphanBlock) ==
  LET s1 == call(s, "disconnect", parentConnection, NoConn)
  IN IF Failed(s1) THEN s1
     ELSE IF s1.recordUndo
     THEN [s1 EXCEPT !.timers = s1.timers \cup
             {[orphan |-> orphanBlock, group |-> s1.group]}]
     ELSE s1

\* Lines 120-159: where the orphan goes: a.connect(b) gives it a new home,
\* a = NoConn when there is none, err when the search throws or never ends.
Home(err, a, b) == [err |-> err, a |-> a, b |-> b]

\* Lines 131-134: connection is the result of lastConnectionInRow.
rowHome(orphanBlock, connection) ==
  IF connection = LoopConn THEN Home("NonTermination", NoConn, NoConn)
  ELSE IF connection # NoConn
  THEN Home(NoErr, outputConnection(orphanBlock), connection)
  ELSE Home(NoErr, NoConn, NoConn)

\* Lines 149-156: newBlock is the block at which the while loop ends.
stackHome(s, orphanBlock, newBlock) ==
  IF newBlock = <<"loop", 0>> THEN Home("NonTermination", NoConn, NoConn)
  ELSE IF /\ newBlock # NoBlock
          /\ canConnect(s, previousConnection(orphanBlock), nextConnection(newBlock))
  THEN Home(NoErr, nextConnection(newBlock), previousConnection(orphanBlock))
  ELSE Home(NoErr, NoConn, NoConn)

newHome(s, parentConnection, childBlock, orphanBlock) ==
  IF type(parentConnection) = INPUT_VALUE
  THEN IF outputConnection(orphanBlock) = NoConn
       THEN Home("Orphan block does not have an output connection.", NoConn, NoConn)
       ELSE rowHome(orphanBlock,
                    lastConnectionInRow(s, childBlock, orphanBlock, {childBlock}))
  ELSE IF type(parentConnection) = NEXT_STATEMENT
  THEN IF previousConnection(orphanBlock) = NoConn
       THEN Home("Orphan block does not have a previous connection.", NoConn, NoConn)
       ELSE stackHome(s, orphanBlock, lastInStack(s, childBlock, {childBlock}))
  ELSE Home(NoErr, NoConn, NoConn)

\* Lines 115-179: the orphan dissolves, goes to its new home, or is bumped.
moveOrphan(s1, parentConnection, orphanBlock, home) ==
  IF isShadow(orphanBlock) THEN call(s1, "blockDispose", orphanBlock, NoConn)
  ELSE IF home.err # NoErr THEN Throw(s1, home.err)
  ELSE IF home.a # NoConn THEN call(s1, "connect", home.a, home.b)
  ELSE call(s1, "bumpOrphan", parentConnection, orphanBlock)

\* Line 181, not reached when the lines before it have thrown.
restoreShadowDom(s2, parentConnection, shadowDom) ==
  IF Failed(s2) THEN s2 ELSE setShadowDom(s2, parentConnection, shadowDom)

\* reattachOrphan without line 113: the shadow DOM stays in place while the
\* orphan is moved.
reattachOrphan_NoClear(s, parentConnection, childBlock) ==
  LET orphanBlock == targetBlock(s, parentConnection)
  IN restoreShadowDom(
       moveOrphan(s, parentConnection, orphanBlock,
                  newHome(s, parentConnection, childBlock, orphanBlock)),
       parentConnection,
       IF isShadow(orphanBlock) THEN blockToDom(s, orphanBlock)
       ELSE getShadowDom(s, parentConnection))

\* Lines 107-182: parentConnection is occupied when childBlock arrives.
reattachOrphan(s, parentConnection, childBlock) ==
  LET orphanBlock == targetBlock(s, parentConnection)
      s1 == setShadowDom(s, parentConnection, NoDom)
  IN restoreShadowDom(
       moveOrphan(s1, parentConnection, orphanBlock,
                  newHome(s1, parentConnection, childBlock, orphanBlock)),
       parentConnection,
       IF isShadow(orphanBlock) THEN blockToDom(s1, orphanBlock)
       ELSE getShadowDom(s, parentConnection))

connect_(s, parentConnection, childConnection) ==
  LET parentBlock == getSourceBlock(parentConnection)
      childBlock == getSourceBlock(childConnection)
      s1 == IF isConnected(s, childConnection)
            THEN call(s, "disconnect", childConnection, NoConn) ELSE s
  IN IF Failed(s1) THEN s1
     ELSE LET s2 == IF isConnected(s1, parentConnection)
                    THEN call(s1, "reattachOrphan", parentConnection, childBlock)
                    ELSE s1
          IN IF Failed(s2) THEN s2
             ELSE LET event == BlockMove(s2, childBlock)
                      s3 == connectReciprocally_(s2, parentConnection, childConnection)
                      s4 == setParent(s3, childBlock, parentBlock)
                  IN IF Failed(s3) THEN s3
                     ELSE IF s2.enabled THEN fire(s4, event) ELSE s4

\* connect without the early return of lines 312-315.
connect_Always(s0, this, otherConnection) ==
  LET s == Observe(s0)
      sc == [s EXCEPT !.consulted = s.consulted + 1]
      eventGroup == sc.group
      s2 == call(IF eventGroup = 0 THEN setGroupTrue(sc) ELSE sc, "connect_",
                 IF isSuperior(this) THEN this ELSE otherConnection,
                 IF isSuperior(this) THEN otherConnection ELSE this)
  IN IF ~s.workspace[getSourceBlock(this)] THEN Throw(s, "TypeError")
     ELSE IF canConnect(sc, this, otherConnection)
     THEN IF Failed(s2) THEN s2
          ELSE Observe(IF eventGroup = 0 THEN setGroupFalse(s2) ELSE s2)
     ELSE sc

\* connect with this.connect_(otherConnection) on both branches of line 325.
connect_ThisFirst(s0, this, otherConnection) ==
  LET s == Observe(s0)
      sc == [s EXCEPT !.consulted = s.consulted + 1]
      eventGroup == sc.group
      s2 == call(IF eventGroup = 0 THEN setGroupTrue(sc) ELSE sc, "connect_",
                 this, otherConnection)
  IN IF s.target[this] = otherConnection THEN s
     ELSE IF ~s.workspace[getSourceBlock(this)] THEN Throw(s, "TypeError")
     ELSE IF canConnect(sc, this, otherConnection)
     THEN IF Failed(s2) THEN s2
          ELSE Observe(IF eventGroup = 0 THEN setGroupFalse(s2) ELSE s2)
     ELSE sc

\* connect with the event group opened before the checker is asked (lines
\* 319-322 above line 318).
connect_GroupFirst(s0, this, otherConnection) ==
  LET s == Observe(s0)
      sc == [s EXCEPT !.consulted = s.consulted + 1]
      eventGroup == sc.group
      sg == IF eventGroup = 0 THEN setGroupTrue(sc) ELSE sc
      s2 == call(sg, "connect_",
                 IF isSuperior(this) THEN this ELSE otherConnection,
                 IF isSuperior(this) THEN otherConnection ELSE this)
  IN IF s.target[this] = otherConnection THEN s
     ELSE IF ~s.workspace[getSourceBlock(this)] THEN Throw(s, "TypeError")
     ELSE IF canConnect(sg, this, otherConnection)
     THEN IF Failed(s2) THEN s2
          ELSE Observe(IF eventGroup = 0 THEN setGroupFalse(s2) ELSE s2)
     ELSE sg

\* connect with Blockly.Events.setGroup(false) outside the test of line 332.
connect_CloseAlways(s0, this, otherConnection) ==
  LET s == Observe(s0)
      sc == [s EXCEPT !.consulted = s.consulted + 1]
      eventGroup == sc.group
      s2 == call(IF eventGroup = 0 THEN setGroupTrue(sc) ELSE sc, "connect_",
                 IF isSuperior(this) THEN this ELSE otherConnection,
                 IF isSuperior(this) THEN otherConnection ELSE this)
  IN IF s.target[this] = otherConnection THEN s
     ELSE IF ~s.workspace[getSourceBlock(this)] THEN Throw(s, "TypeError")
     ELSE IF canConnect(sc, this, otherConnection)
     THEN IF Failed(s2) THEN s2
          ELSE Observe(setGroupFalse(s2))
     ELSE sc

connect(s0, this, otherConnection) ==
  LET s == Observe(s0)
      sc == [s EXCEPT !.consulted = s.consulted + 1]
      eventGroup == sc.group
      s2 == call(IF eventGroup = 0 THEN setGroupTrue(sc) ELSE sc, "connect_",
                 IF isSuperior(this) THEN this ELSE otherConnection,
                 IF isSuperior(this) THEN otherConnection ELSE this)
  IN IF s.target[this] = otherConnection THEN s
     ELSE IF ~s.workspace[getSourceBlock(this)] THEN Throw(s, "TypeError")
     ELSE IF canConnect(sc, this, otherConnection)
     THEN IF Failed(s2) THEN s2
          ELSE Observe(IF eventGroup = 0 THEN setGroupFalse(s2) ELSE s2)
     ELSE sc

\* onCheckChanged_ with child = this.sourceBlock_ on both sides of line 526.
onCheckChanged_OwnBlock(s, this) ==
  IF isConnected(s, this)
  THEN IF ~s.workspace[getSourceBlock(this)] THEN Throw(s, "TypeError")
       ELSE IF ~canConnect(s, this, s.target[this])
       THEN call(s, "unplug", getSourceBlock(this), NoConn)
       ELSE s
  ELSE s

onCheckChanged_(s, this) ==
  IF isConnected(s, this)
  THEN IF ~s.workspace[getSourceBlock(this)] THEN Throw(s, "TypeError")
       ELSE IF ~canConnect(s, this, s.target[this])
       THEN call(s, "unplug",
                 IF isSuperior(this) THEN targetBlock(s, this) ELSE getSourceBlock(this),
                 NoConn)
       ELSE s
  ELSE s

\* check: [kind |-> "none"], [kind |-> "tag", tag |-> t] for the string t,
\* or [kind |-> "list", list |-> l] for the array l.
setCheck(s0, this, check) ==
  LET s == Observe(s0)
      s1 == IF check.kind = "none" THEN [s EXCEPT !.check[this] = NoCheck]
            ELSE onCheckChanged_(
                   [s EXCEPT !.check[this] =
                      Tags(IF check.kind = "tag" THEN <<check.tag>> ELSE check.list)],
                   this)
  IN IF Failed(s1) THEN s1 ELSE Observe(s1)

call(s, f, a, b) ==
  CASE f = "connect" -> connect(s, a, b)
    [] f = "connect_" -> connect_(s, a, b)
    [] f = "disconnect" -> disconnect(s, a)
    [] f = "respawnShadow_" -> respawnShadow_(s, a)
    [] f = "reattachOrphan" -> reattachOrphan(s, a, b)
    [] f = "bumpOrphan" -> bumpOrphan(s, a, b)
    [] f = "unplug" -> unplug(s, a)
    [] f = "blockDispose" -> blockDispose(s, a)
    [] f = "dispose" -> dispose(s, a)
    [] f = "setCheck" -> setCheck(s, a, b)

(***************************************************************************)
(* The workspace after construction, and the public calls.                 *)
(***************************************************************************)
Template(w) == [shape |-> WorldShape(w), field |-> 0]

\* The connections that may be constructed with a shadow template.
Templated(w) ==
  CASE w = "row" -> {<<"P", 0, "in1">>, <<"N", 0, "in1">>}
    [] w = "pair" -> {<<"P", 0, "in1">>}
    [] OTHER -> {<<"R", 0, "next">>, <<"A", 0, "next">>}

\* The connections a caller can hold: those of the blocks of the workspace,
\* shadow blocks while they are alive.
Usable ==
  {c \in Conns : /\ getSourceBlock(c) \in WorldBlocks(world)
                 /\ (workspace[getSourceBlock(c)] \/ ~isShadow(getSourceBlock(c)))}

InitIn(w) ==
  /\ world = w
  /\ targetConnection = [c \in Conns |-> NoConn]
  /\ parent_ = [b \in Blocks |-> NoBlock]
  /\ \E t \in Templated(world) \cup {NoConn} :
       shadowDom_ = [c \in Conns |-> IF c = t THEN Template(world) ELSE NoDom]
  /\ check_ = [c \in Conns |-> InitCheck(c)]
  /\ disposed = [c \in Conns |-> FALSE]
  /\ workspace = [b \in Blocks |-> b \in WorldBlocks(world) /\ ~isShadow(b)]
  /\ field = [b \in ShadowBlocks |-> 0]
  /\ group \in {0, 1}
  /\ recordUndo \in BOOLEAN
  /\ timers = {}

Init == InitIn("row") \/ InitIn("stack")

\* The call returns or throws, and stays within the bounds of the model.
Within(r) ==
  /\ r.err \notin {"OutOfShadows", "NonTermination"}
  /\ Cardinality(r.timers) <= MaxTimers

\* The bounds on the connections disposed of and on the checks changed.
Edits(r) ==
  /\ Cardinality({c \in Conns : r.workspace[getSourceBlock(c)] /\ r.disposed[c]})
       <= MaxDisposed
  /\ Cardinality({c \in Conns : r.check[c] # InitCheck(c)}) <= MaxSetCheck

Apply(r) ==
  /\ Within(r)
  /\ targetConnection' = r.target
  /\ parent_' = r.parent
  /\ shadowDom_' = r.shadowDom
  /\ check_' = r.check
  /\ disposed' = r.disposed
  /\ workspace' = r.workspace
  /\ field' = r.field
  /\ group' = r.group
  /\ timers' = r.timers
  /\ UNCHANGED <<world, recordUndo>>

Connect == \E a \in Usable : \E b \in Usable : Apply(call(St, "connect", a, b))

Disconnect == \E a \in Usable : Apply(call(St, "disconnect", a, NoConn))

\* onFailedConnect does nothing (line 304) and does not read its argument;
\* notified records on which connection it was called.
onFailedConnect(s, this) == [s EXCEPT !.notified = Append(s.notified, this)]

\* The callback without the test of line 168.
bump_Unchecked(s, t) ==
  LET s1 == [s EXCEPT !.timers = s.timers \ {t}]
  IN setGroupFalse(
       onFailedConnect([s1 EXCEPT !.group = t.group],
                       IF outputConnection(t.orphan) # NoConn
                       THEN outputConnection(t.orphan)
                       ELSE previousConnection(t.orphan)))

\* The callback of lines 166-177.
bump(s, t) ==
  LET s1 == [s EXCEPT !.timers = s.timers \ {t}]
  IN IF s1.workspace[t.orphan] /\ s1.parent[t.orphan] = NoBlock
     THEN IF outputConnection(t.orphan) # NoConn
          THEN setGroupFalse(onFailedConnect([s1 EXCEPT !.group = t.group],
                                             outputConnection(t.orphan)))
          ELSE IF previousConnection(t.orphan) # NoConn
          THEN setGroupFalse(onFailedConnect([s1 EXCEPT !.group = t.group],
                                             previousConnection(t.orphan)))
          ELSE setGroupFalse([s1 EXCEPT !.group = t.group])
     ELSE s1

Bump == \E t \in timers : Apply(bump(St, t))

Dispose ==
  \E a \in Usable :
    Edits(call(St, "dispose", a, NoConn)) /\ Apply(call(St, "dispose", a, NoConn))

CheckArgs ==
  {[kind |-> "none", tag |-> "", list |-> << >>],
   [kind |-> "tag", tag |-> "String", list |-> << >>],
   [kind |-> "list", tag |-> "", list |-> <<"Number">>]}

SetCheck ==
  \E a \in Usable : \E check \in CheckArgs :
    Edits(call(St, "setCheck", a, check)) /\ Apply(call(St, "setCheck", a, check))

Next == Connect \/ Disconnect \/ Bump

Spec == Init /\ [][Next]_vars

\* All four public operations, in the workspace "pair".
NextAll == Connect \/ Disconnect \/ Dispose \/ SetCheck \/ Bump

SpecAll == InitIn("pair") /\ [][NextAll]_vars


(***************************************************************************)
(* The claims.                                                             *)
(***************************************************************************)
Returned(r) == r.err = NoErr

\* The connection through which a block hangs on its parent.
Inferior(b) ==
  IF outputConnection(b) # NoConn THEN outputConnection(b) ELSE previousConnection(b)

RECURSIVE AncestorsIn(_, _, _)
\* The blocks reached from b by at most n parent links of the map parent.
AncestorsIn(parent, b, n) ==
  IF n = 0 \/ parent[b] = NoBlock THEN {}
  ELSE {parent[b]} \cup AncestorsIn(parent, parent[b], n - 1)

Ancestors(parent, b) == AncestorsIn(parent, b, Cardinality(Blocks))

\* C1: reciprocity.  Whenever a public call of connect, disconnect, dispose
\* or setCheck starts or returns, nested ones included, every connection
\* that is the target of another has that one as its own target.
C1_Reciprocity ==
  /\ Reciprocal(targetConnection)
  /\ \A a \in Usable :
       /\ call(St, "disconnect", a, NoConn).recip
       /\ call(St, "dispose", a, NoConn).recip
       /\ \A check \in CheckArgs : call(St, "setCheck", a, check).recip
       /\ \A b \in Usable : call(St, "connect", a, b).recip

\* A displaced block was given a new home, a shadow has respawned on P and
\* a connection has been disposed of.
C1_Witness ==
  /\ targetConnection[<<"N", 0, "in1">>] = <<"X", 0, "out">>
  /\ \E h \in ValueShadows : workspace[h] /\ parent_[h] = <<"P", 0>>
  /\ \E c \in Usable : disposed[c]

\* C2: parent and link agree.  The parent of a block is the owner of the
\* connection its output or previous connection is linked to, and is absent
\* exactly when that connection is unlinked (or the block has neither).
C2_ParentLink ==
  \A b \in Blocks :
    parent_[b] = IF Inferior(b) # NoConn /\ targetConnection[Inferior(b)] # NoConn
                 THEN getSourceBlock(targetConnection[Inferior(b)])
                 ELSE NoBlock

\* A block that was connected and disconnected again beside a chain of two
\* links.
C2_Witness ==
  /\ parent_[<<"X", 0>>] = <<"N", 0>>
  /\ parent_[<<"N", 0>>] = <<"P", 0>>
  /\ parent_[<<"M", 0>>] = NoBlock
  /\ \E h \in ValueShadows : workspace[h] /\ parent_[h] = NoBlock

\* C3: cycle freedom.  No block is its own ancestor through parent links.
C3_CycleFree == \A b \in Blocks : b \notin Ancestors(parent_, b)

\* C4 as claimed: an accepted connect(A, B) that returns leaves A and B
\* linked to each other; a disconnect of a linked connection that returns
\* leaves both former partners without target.
C4_Original ==
  \A a \in Usable :
    /\ \A b \in Usable :
         LET r == call(St, "connect", a, b)
         IN canConnect(St, a, b) /\ Returned(r) => r.target[a] = b /\ r.target[b] = a
    /\ LET r == call(St, "disconnect", a, NoConn)
           o == targetConnection[a]
       IN o # NoConn /\ Returned(r) => r.target[a] = NoConn /\ r.target[o] = NoConn

\* The shadow of the connection sup respawns when it is disconnected.
Respawns(sup) ==
  shadowDom_[sup] # NoDom /\ workspace[getSourceBlock(sup)] /\ recordUndo

\* C4 as amended: after disconnect the inferior partner has no target; the
\* superior one has none either, unless it has a template, its block is in
\* a workspace and undo is recorded: then its target is the connection of a
\* new shadow block made from the template.
C4_ConnectDisconnect ==
  \A a \in Usable :
    /\ \A b \in Usable :
         LET r == call(St, "connect", a, b)
         IN canConnect(St, a, b) /\ Returned(r) => r.target[a] = b /\ r.target[b] = a
    /\ LET r == call(St, "disconnect", a, NoConn)
           o == targetConnection[a]
           sup == IF isSuperior(a) THEN a ELSE o
           inf == IF isSuperior(a) THEN o ELSE a
           h == targetBlock(r, sup)
       IN o # NoConn /\ Returned(r) =>
            /\ r.target[inf] = NoConn
            /\ IF Respawns(sup)
               THEN /\ isShadow(h) /\ ~workspace[h] /\ r.workspace[h]
                    /\ blockToDom(r, h) = shadowDom_[sup]
               ELSE r.target[sup] = NoConn

\* A linked connection with a template is disconnected with undo recorded,
\* and a connect is accepted onto an occupied connection.
C4_Witness ==
  /\ \E a \in Usable :
       /\ targetConnection[a] # NoConn /\ isSuperior(a) /\ Respawns(a)
       /\ Returned(call(St, "disconnect", a, NoConn))
  /\ \E a \in Usable : \E b \in Usable :
       /\ canConnect(St, a, b) /\ targetConnection[a] # NoConn /\ targetConnection[a] # b
       /\ Returned(call(St, "connect", a, b))

\* The links, parents and shadow templates are in r as they are now.
SameGraph(r) ==
  /\ r.target = targetConnection
  /\ r.parent = parent_
  /\ r.shadowDom = shadowDom_

\* C5: idempotence of identical connect.  connect(A, B) with A and B linked
\* to each other changes no link, parent, shadow template or event group,
\* fires no event and does not ask the checker.
C5_Idempotent ==
  \A a \in Usable : \A b \in Usable :
    targetConnection[a] = b /\ targetConnection[b] = a =>
      LET r == call(St, "connect", a, b)
      IN /\ Returned(r)
         /\ SameGraph(r)
         /\ r.group = group
         /\ r.events = << >>
         /\ r.consulted = 0

\* Two linked connections, the superior one with a shadow template where
\* undo is recorded and no group is open, and connect on them returns.
C5_Witness ==
  \E a \in Usable : \E b \in Usable :
    /\ targetConnection[a] = b /\ targetConnection[b] = a
    /\ Respawns(a) /\ group = 0
    /\ Returned(call(St, "connect", a, b))
    /\ Returned(call(St, "connect", b, a))

\* The entries the call leading to r has added to the attach log.
Attached(r) == {r.attach[i] : i \in 1..Len(r.attach)}

\* C6: superiority symmetry.  For a superior connection A and an inferior B
\* of the opposite type, connect(A, B) and connect(B, A) leave the same
\* links, parents and shadow templates, and every attachment made on the way
\* has the superior connection as parent and the inferior one as child.
C6_Symmetry ==
  \A a \in Usable : \A b \in Usable :
    isSuperior(a) /\ type(b) = OPPOSITE_TYPE(type(a)) =>
      LET r1 == call(St, "connect", a, b)
          r2 == call(St, "connect", b, a)
      IN /\ r1.target = r2.target
         /\ r1.parent = r2.parent
         /\ r1.shadowDom = r2.shadowDom
         /\ \A l \in Attached(r1) \cup Attached(r2) :
              isSuperior(l.parent) /\ ~isSuperior(l.child)

\* An accepted pair whose superior connection holds an ordinary block and
\* whose inferior one is linked elsewhere, connected in both orders.
C6_Witness ==
  \E a \in Usable : \E b \in Usable :
    /\ isSuperior(a) /\ canConnect(St, a, b)
    /\ targetConnection[a] # NoConn /\ ~isShadow(targetBlock(St, a))
    /\ targetConnection[b] # NoConn /\ targetConnection[b] # a
    /\ Returned(call(St, "connect", a, b)) /\ call(St, "connect", a, b).target[a] = b
    /\ Returned(call(St, "connect", b, a)) /\ call(St, "connect", b, a).target[a] = b

\* C7: a refused connect is a silent no-op.  When the checker refuses the
\* pair, connect throws nothing, fires no event and leaves every link,
\* parent, shadow template and the event group as they were.
C7_Refused ==
  \A a \in Usable : \A b \in Usable :
    /\ targetConnection[a] # b
    /\ workspace[getSourceBlock(a)]
    /\ ~canConnect(St, a, b)
    => LET r == call(St, "connect", a, b)
       IN /\ Returned(r)
          /\ r.events = << >>
          /\ SameGraph(r)
          /\ r.group = group

\* With no group open, connect is refused for a pair of opposite types on
\* two blocks whose checks share no tag, the superior one occupied.
C7_Witness ==
  \E a \in Usable : \E b \in Usable :
    /\ isSuperior(a) /\ doSafetyChecks(St, a, b) /\ ~doTypeChecks(St, a, b)
    /\ targetConnection[a] # NoConn /\ targetConnection[a] # b /\ group = 0
    /\ call(St, "connect", a, b).consulted = 1
    /\ SameGraph(call(St, "connect", b, a))

\* The state in which the field targetConnection of a has been set to c.
Overwritten(a, c) == [St EXCEPT !.target[a] = c]

\* C8: disconnect on a connection without link throws "Source connection
\* not connected."; on a connection whose partner does not point back (the
\* field targetConnection having been overwritten) it throws "Target
\* connection not connected to source connection."; in both cases no link,
\* parent or event group changes, no event is fired and no shadow respawns.
C8_DisconnectErrors ==
  \A a \in Usable :
    /\ targetConnection[a] = NoConn =>
         LET r == call(St, "disconnect", a, NoConn)
         IN /\ r.err = "Source connection not connected."
            /\ SameGraph(r) /\ r.group = group /\ r.events = << >>
            /\ r.workspace = workspace
    /\ \A c \in Usable :
         c # a /\ targetConnection[c] # a =>
           LET r == call(Overwritten(a, c), "disconnect", a, NoConn)
           IN /\ r.err = "Target connection not connected to source connection."
              /\ r.target = Overwritten(a, c).target
              /\ r.parent = parent_ /\ r.shadowDom = shadowDom_
              /\ r.group = group /\ r.events = << >>
              /\ r.workspace = workspace

\* Undo is recorded and no group is open; a connection with a shadow
\* template is unlinked and disconnect on it throws, and so does disconnect
\* on it once its target field names a connection linked elsewhere.
C8_Witness ==
  \E a \in Usable : \E c \in Usable :
    /\ targetConnection[a] = NoConn /\ Respawns(a) /\ group = 0
    /\ targetConnection[c] # NoConn /\ type(c) = OPPOSITE_TYPE(type(a))
    /\ call(St, "disconnect", a, NoConn).err = "Source connection not connected."
    /\ call(Overwritten(a, c), "disconnect", a, NoConn).err
         = "Target connection not connected to source connection."

\* The value inputs of block that accept the output of x.
Accepting(s, block, x) ==
  {c \in {inputList(block)[i] : i \in 1..Len(inputList(block))} :
     /\ c # NoConn
     /\ type(c) = INPUT_VALUE
     /\ canConnect(s, outputConnection(x), c)}

RECURSIVE RowEnd(_, _, _, _)
\* Walking down from block through blocks that each have exactly one input
\* accepting the output of x: the slot where the walk ends, empty or holding
\* a shadow; NoConn when a block on the way has no or several such inputs;
\* LoopConn when the walk comes back to a block of seen.
RowEnd(s, block, x, seen) ==
  LET acc == Accepting(s, block, x)
  IN IF Cardinality(acc) # 1 THEN NoConn
     ELSE LET slot == CHOOSE c \in acc : TRUE
              below == targetBlock(s, slot)
          IN IF below = NoBlock \/ isShadow(below) THEN slot
             ELSE IF below \in seen THEN LoopConn
             ELSE RowEnd(s, below, x, seen \cup {below})

\* connect(a, b) attaches the block of b to the connection a of type t,
\* which holds an ordinary block.
Displaces(a, b, t) ==
  /\ type(a) = t
  /\ targetConnection[a] # NoConn /\ targetConnection[a] # b
  /\ ~isShadow(targetBlock(St, a))
  /\ canConnect(St, a, b)
  /\ Within(call(St, "connect", a, b))

\* C9: no orphan loss on a value input.  When connect attaches a new block
\* to an input occupied by the ordinary block X, the new block ends on that
\* input; X ends on the slot where the walk down from the new block ends,
\* below the new block, or without parent when a block on the way has no or
\* several inputs accepting X.
C9_NoOrphanLoss ==
  \A a \in Usable : \A b \in Usable :
    LET x == targetBlock(St, a)
        new == getSourceBlock(b)
        slot == RowEnd(St, new, x, {new})
        r == call(St, "connect", a, b)
    IN Displaces(a, b, INPUT_VALUE) /\ slot # LoopConn =>
         /\ Returned(r)
         /\ r.target[a] = b /\ r.target[b] = a
         /\ r.parent[new] = getSourceBlock(a)
         /\ IF slot # NoConn
            THEN /\ r.target[outputConnection(x)] = slot
                 /\ r.target[slot] = outputConnection(x)
                 /\ r.parent[x] = getSourceBlock(slot)
                 /\ new \in Ancestors(r.parent, x)
            ELSE /\ r.parent[x] = NoBlock
                 /\ r.target[outputConnection(x)] = NoConn

\* The displaced block goes to a slot two blocks down that holds a shadow.
C9_Witness ==
  \E a \in Usable : \E b \in Usable :
    LET x == targetBlock(St, a)
        new == getSourceBlock(b)
        slot == RowEnd(St, new, x, {new})
    IN /\ Displaces(a, b, INPUT_VALUE)
       /\ slot \notin {NoConn, LoopConn}
       /\ getSourceBlock(slot) # new
       /\ isShadow(targetBlock(St, slot))
       /\ call(St, "connect", a, b).target[slot] = outputConnection(x)

RECURSIVE StackEnd(_, _, _)
\* The last ordinary block of the stack that starts at block; <<"loop", 0>>
\* when the stack comes back to a block of seen.
StackEnd(s, block, seen) ==
  LET below == getNextBlock(s, block)
  IN IF below = NoBlock \/ isShadow(below) THEN block
     ELSE IF below \in seen THEN <<"loop", 0>>
     ELSE StackEnd(s, below, seen \cup {below})

\* C10: statement splice.  When connect attaches a new stack to a next
\* connection occupied by the ordinary block X, the first block of the stack
\* ends on that connection; X ends on the next connection of the last
\* ordinary block of the stack when there is one and the checker accepts
\* the pair, and without parent otherwise.
C10_Splice ==
  \A a \in Usable : \A b \in Usable :
    LET x == targetBlock(St, a)
        new == getSourceBlock(b)
        last == StackEnd(St, new, {new})
        r == call(St, "connect", a, b)
    IN Displaces(a, b, NEXT_STATEMENT) /\ last # <<"loop", 0>> =>
         /\ Returned(r)
         /\ r.target[a] = b /\ r.target[b] = a
         /\ r.parent[new] = getSourceBlock(a)
         /\ IF /\ nextConnection(last) # NoConn
               /\ canConnect(St, previousConnection(x), nextConnection(last))
            THEN /\ r.target[previousConnection(x)] = nextConnection(last)
                 /\ r.target[nextConnection(last)] = previousConnection(x)
                 /\ r.parent[x] = last
            ELSE /\ r.parent[x] = NoBlock
                 /\ r.target[previousConnection(x)] = NoConn

\* The displaced block goes below a stack of two blocks, onto a next
\* connection that holds a shadow.
C10_Witness ==
  \E a \in Usable : \E b \in Usable :
    LET x == targetBlock(St, a)
        last == StackEnd(St, getSourceBlock(b), {getSourceBlock(b)})
    IN /\ Displaces(a, b, NEXT_STATEMENT)
       /\ last \notin {<<"loop", 0>>, getSourceBlock(b)}
       /\ nextConnection(last) # NoConn
       /\ isShadow(targetBlock(St, nextConnection(last)))
       /\ call(St, "connect", a, b).parent[x] = last

\* C11: placeholder dissolution.  Disconnecting a superior connection that
\* holds a shadow block destroys the shadow block: no shadow block of the
\* workspace is without parent, and no connection is linked to a connection
\* of a block that has left the workspace.
C11_Dissolution ==
  /\ \A h \in ShadowBlocks : workspace[h] => parent_[h] # NoBlock
  /\ \A c \in Conns :
       targetConnection[c] # NoConn => workspace[getSourceBlock(targetConnection[c])]
  /\ \A a \in Usable :
       LET h == targetBlock(St, a)
           r == call(St, "disconnect", a, NoConn)
       IN isSuperior(a) /\ h # NoBlock /\ isShadow(h) /\ Returned(r) => ~r.workspace[h]

\* C12: respawn determinism.  When disconnect returns for a link whose
\* superior connection has a shadow template, its block being in a workspace
\* and undo being recorded, a shadow block that was not in the workspace
\* before has been made from the template, is linked to that connection and
\* has the block of that connection as parent.
C12_Respawn ==
  \A a \in Usable :
    LET o == targetConnection[a]
        sup == IF isSuperior(a) THEN a ELSE o
        r == call(St, "disconnect", a, NoConn)
        h == targetBlock(r, sup)
    IN o # NoConn /\ Respawns(sup) /\ Within(r) =>
         /\ Returned(r)
         /\ h # NoBlock /\ isShadow(h)
         /\ ~workspace[h] /\ r.workspace[h]
         /\ blockToDom(r, h) = shadowDom_[sup]
         /\ r.target[sup] = Inferior(h) /\ r.target[Inferior(h)] = sup
         /\ r.parent[h] = getSourceBlock(sup)
         /\ r.shadowDom[sup] = shadowDom_[sup]

\* disconnect is called on the inferior side of a link whose superior
\* connection has a template, and a shadow block takes the place.
C12_Witness ==
  \E a \in Usable :
    /\ ~isSuperior(a) /\ targetConnection[a] # NoConn
    /\ ~isShadow(getSourceBlock(a))
    /\ Respawns(targetConnection[a])
    /\ Returned(call(St, "disconnect", a, NoConn))
    /\ isShadow(targetBlock(call(St, "disconnect", a, NoConn), targetConnection[a]))

\* The call leading to r, made with events enabled, has kept the event
\* groups nested: made with no group open, it has opened at most one group,
\* closed it as often as it opened one, and every move event carries that
\* group; made inside a group, it has opened and closed none, every move
\* event carries the caller's group, and the group is still open.
Grouped(r) ==
  /\ r.group = group
  /\ r.nGroups = r.nClosed
  /\ r.nGroups <= (IF group = 0 THEN 1 ELSE 0)
  /\ r.events # << >> /\ group = 0 => r.nGroups = 1
  /\ \A i \in 1..Len(r.events) :
       r.events[i].group = (IF group = 0 THEN 2 ELSE group)

\* C13: event-group nesting.  Every connect or disconnect that returns has
\* kept the groups nested: all move events of the call and of the calls
\* nested in it carry one group, opened and closed by the outermost call
\* alone, or the caller's group when there is one.
C13_GroupNesting ==
  \A a \in Usable :
    /\ LET r == call(St, "disconnect", a, NoConn) IN Returned(r) => Grouped(r)
    /\ \A b \in Usable :
         LET r == call(St, "connect", a, b) IN Returned(r) => Grouped(r)

\* With no group open, a connect whose cascade has a nested disconnect, a
\* shadow respawn and a re-homing connect returns with four or more events.
C13_Witness ==
  \E a \in Usable : \E b \in Usable :
    LET r == call(St, "connect", a, b)
    IN /\ group = 0 /\ Returned(r)
       /\ Len(r.events) >= 4
       /\ Len(r.attach) >= 3
       /\ r.nGroups = 1

\* The block and the two parents of each move event of r, in order.
Moved(r) ==
  [i \in 1..Len(r.events) |->
     [block |-> r.events[i].block, oldParent |-> r.events[i].oldParent,
      newParent |-> r.events[i].newParent]]

\* C14: move-event accounting.  With events enabled, the move events of a
\* connect or a disconnect are, in order, one for each reparenting of a child
\* block that the call and its cascade make, from the old parent to the new
\* one; with events disabled there is none.  Disconnecting a next connection
\* with a template from an ordinary block C gives one move event for C and
\* then one for the shadow block that respawns.
C14_MoveEvents ==
  \A a \in Usable :
    /\ LET r == call(St, "disconnect", a, NoConn)
           c == targetBlock(St, a)
       IN /\ Moved(r) = r.moves
          /\ call(StWith(FALSE), "disconnect", a, NoConn).events = << >>
          /\ /\ type(a) = NEXT_STATEMENT /\ Respawns(a) /\ group = 0
             /\ c # NoBlock /\ ~isShadow(c) /\ Returned(r)
             => /\ Len(r.events) = 2
                /\ r.events[1].block = c
                /\ r.events[1].oldParent = getSourceBlock(a)
                /\ r.events[1].newParent = NoBlock
                /\ r.events[2].block = targetBlock(r, a)
                /\ isShadow(r.events[2].block)
                /\ r.events[2].oldParent = NoBlock
                /\ r.events[2].newParent = getSourceBlock(a)
    /\ \A b \in Usable :
         /\ LET r == call(St, "connect", a, b) IN Moved(r) = r.moves
         /\ call(StWith(FALSE), "connect", a, b).events = << >>

\* A next connection with a template is disconnected from an ordinary block
\* with undo recorded: two reparentings with events enabled, the same two
\* and no event with events disabled.
C14_Witness ==
  \E a \in Usable :
    /\ type(a) = NEXT_STATEMENT /\ Respawns(a) /\ group = 0
    /\ targetConnection[a] # NoConn /\ ~isShadow(targetBlock(St, a))
    /\ Len(call(St, "disconnect", a, NoConn).events) = 2
    /\ Len(call(StWith(FALSE), "disconnect", a, NoConn).moves) = 2
    /\ Returned(call(StWith(FALSE), "disconnect", a, NoConn))

\* C15: dispose severs the link.  After dispose returns for a linked
\* connection, superior or inferior, the connection has no target, no
\* connection has it as target, it is disposed, and no new shadow block is
\* in the workspace.
C15_DisposeSevers ==
  \A a \in Usable :
    LET r == call(St, "dispose", a, NoConn)
    IN targetConnection[a] # NoConn /\ Returned(r) =>
         /\ r.target[a] = NoConn
         /\ \A c \in Conns : r.target[c] # a
         /\ r.disposed[a]
         /\ \A h \in ShadowBlocks : r.workspace[h] => workspace[h]

\* The connection c of an ordinary block is disposed and, in r, still
\* disposed and without link in either direction.
StaysOut(c, r) ==
  /\ r.disposed[c]
  /\ r.target[c] = NoConn
  /\ \A d \in Conns : r.target[d] # c

\* C16: disposed is terminal.  A disposed connection has no link and is the
\* target of no connection, and whatever connect, disconnect, dispose or
\* setCheck is called next, on connections that are not disposed, it is
\* still disposed and has no link when the call returns.
C16_DisposedTerminal ==
  \A c \in Usable :
    disposed[c] /\ ~isShadow(getSourceBlock(c)) =>
      /\ StaysOut(c, St)
      /\ \A a \in {u \in Usable : ~disposed[u]} :
           /\ StaysOut(c, call(St, "disconnect", a, NoConn))
           /\ StaysOut(c, call(St, "dispose", a, NoConn))
           /\ \A check \in CheckArgs : StaysOut(c, call(St, "setCheck", a, check))
           /\ \A b \in {u \in Usable : ~disposed[u]} :
                StaysOut(c, call(St, "connect", a, b))

\* The callback t fired in state s has notified nobody and changed nothing
\* but the list of pending callbacks.
Idle(s, t) ==
  bump(s, t) = [s EXCEPT !.timers = s.timers \ {t}]

\* C17: deferred bump re-validation.  connect schedules the callback only
\* with undo recorded, for an ordinary block that it has displaced and left
\* without parent, and disconnect schedules none.  Whenever the callback
\* fires, it calls onFailedConnect once, on the output (else previous)
\* connection of the orphan, if the orphan then has no parent and is in a
\* workspace; if the orphan has a parent by then, or has been disposed of,
\* it notifies nobody and leaves the event group alone.
C17_DeferredBump ==
  /\ \A a \in Usable :
       /\ call(St, "disconnect", a, NoConn).timers = timers
       /\ \A b \in Usable :
            LET r == call(St, "connect", a, b)
            IN \A t \in r.timers \ timers :
                 /\ recordUndo
                 /\ ~isShadow(t.orphan)
                 /\ parent_[t.orphan] # NoBlock
                 /\ r.parent[t.orphan] = NoBlock
  /\ \A t \in timers :
       /\ IF workspace[t.orphan] /\ parent_[t.orphan] = NoBlock
          THEN /\ bump(St, t).notified = <<Inferior(t.orphan)>>
               /\ SameGraph(bump(St, t))
          ELSE Idle(St, t)
       /\ LET s == call(St, "blockDispose", t.orphan, NoConn)
          IN Returned(s) => ~s.workspace[t.orphan] /\ Idle(s, t)

\* A callback is pending for an orphan that has a parent again, and a
\* connect is about to schedule another.
C17_Witness ==
  /\ \E t \in timers : parent_[t.orphan] # NoBlock /\ Idle(St, t)
  /\ \E a \in Usable : \E b \in Usable :
       call(St, "connect", a, b).timers \ timers # {}

\* The state with the check of a replaced as setCheck(check) stores it.
Rechecked(a, check) ==
  [St EXCEPT !.check[a] =
     IF check.kind = "none" THEN [isNull |-> TRUE, tags |-> << >>]
     ELSE IF check.kind = "tag" THEN [isNull |-> FALSE, tags |-> <<check.tag>>]
     ELSE [isNull |-> FALSE, tags |-> check.list]]

\* C18: setCheck re-validates the existing link.  setCheck stores a list as
\* it is, a single tag as a list of one, and none as absent.  When it
\* changes the check of no other connection in the workspace.  When it
\* returns for a linked connection that the checker now refuses to its
\* partner, the two are no longer linked and the child block of the pair has
\* no parent; when the checker still accepts, links and parents are as
\* before.
C18_SetCheck ==
  \A a \in Usable : \A check \in CheckArgs :
    LET r == call(St, "setCheck", a, check)
        o == targetConnection[a]
        child == getSourceBlock(IF isSuperior(a) THEN o ELSE a)
    IN workspace[getSourceBlock(a)] /\ Within(r) =>
         /\ Returned(r)
         /\ r.check[a] = Rechecked(a, check).check[a]
         /\ \A c \in Usable \ {a} : r.check[c] = check_[c]
         /\ o # NoConn =>
              IF canConnect(Rechecked(a, check), a, o)
              THEN r.target = targetConnection /\ r.parent = parent_
              ELSE /\ r.target[a] # o /\ r.target[o] # a
                   /\ r.parent[child] = NoBlock

\* The check of a superior connection with a template is changed, with undo
\* recorded, so that the checker refuses the block it holds; and the check
\* of the inferior connection of a link is changed so.
C18_Witness ==
  /\ \E a \in Usable : \E check \in CheckArgs :
       /\ isSuperior(a) /\ targetConnection[a] # NoConn /\ Respawns(a)
       /\ ~canConnect(Rechecked(a, check), a, targetConnection[a])
       /\ Returned(call(St, "setCheck", a, check))
       /\ call(St, "setCheck", a, check).parent[targetBlock(St, a)] = NoBlock
  /\ \E a \in Usable : \E check \in CheckArgs :
       /\ ~isSuperior(a) /\ targetConnection[a] # NoConn
       /\ ~canConnect(Rechecked(a, check), a, targetConnection[a])
       /\ call(St, "setCheck", a, check).parent[getSourceBlock(a)] = NoBlock

\* connect(a, b) is accepted and finds the superior connection sup of the
\* two occupied by another block than the one that arrives.
Occupied(a, b, sup) ==
  /\ sup = (IF isSuperior(a) THEN a ELSE b)
  /\ targetConnection[sup] \notin {NoConn, a, b}
  /\ canConnect(St, a, b)
  /\ Within(call(St, "connect", a, b))
  /\ Returned(call(St, "connect", a, b))

\* C19: template preservation across orphan resolution.  When connect onto
\* an occupied superior connection returns, the shadow template of that
\* connection is the one it had before the call if the displaced block was
\* ordinary, and the serialization of the displaced block if that was a
\* shadow; and on the way nothing but the arriving block was attached to the
\* superior connection, in particular no respawned shadow.
C19_Template ==
  \A a \in Usable : \A b \in Usable : \A sup \in {a, b} :
    Occupied(a, b, sup) =>
      LET r == call(St, "connect", a, b)
      IN /\ r.shadowDom[sup] =
              IF isShadow(targetBlock(St, sup))
              THEN blockToDom(St, targetBlock(St, sup))
              ELSE shadowDom_[sup]
         /\ \A e \in Attached(r) : e.parent = sup => e.child \in {a, b}

\* A shadow on a connection without template is displaced and leaves its
\* serialization there; and an ordinary block is displaced from a
\* connection with a template, with undo recorded.
C19_Witness ==
  /\ \E a \in Usable : \E b \in Usable : \E sup \in {a, b} :
       /\ Occupied(a, b, sup)
       /\ isShadow(targetBlock(St, sup)) /\ shadowDom_[sup] = NoDom
       /\ call(St, "connect", a, b).shadowDom[sup] # NoDom
  /\ \E a \in Usable : \E b \in Usable : \E sup \in {a, b} :
       /\ Occupied(a, b, sup)
       /\ ~isShadow(targetBlock(St, sup)) /\ Respawns(sup)
       /\ call(St, "connect", a, b).parent[targetBlock(St, sup)] = NoBlock
       /\ call(St, "connect", a, b).shadowDom[sup] = shadowDom_[sup]

\* C20: orphan resolution completes before the new link.  Every time a
\* connect or a disconnect and its cascade write a reciprocal link, the
\* superior and the child connection are both unlinked at that moment.  When
\* connect displaces a block, with events enabled, its last move event is
\* that of the arriving block to its new parent, and every move event of the
\* displaced block comes before it.
C20_ResolveFirst ==
  \A a \in Usable :
    /\ \A e \in Attached(call(St, "disconnect", a, NoConn)) :
         e.parentWas = NoConn /\ e.childWas = NoConn
    /\ \A b \in Usable :
         LET r == call(St, "connect", a, b)
         IN /\ Within(r) =>
                 \A e \in Attached(r) : e.parentWas = NoConn /\ e.childWas = NoConn
            /\ \A sup \in {a, b} :
                 Occupied(a, b, sup) =>
                   /\ r.events # << >>
                   /\ r.events[Len(r.events)].block = getSourceBlock(r.target[sup])
                   /\ r.events[Len(r.events)].newParent = getSourceBlock(sup)
                   /\ r.target[sup] \in {a, b}
                   /\ \A i \in 1..Len(r.events) :
                        r.events[i].block = targetBlock(St, sup) => i < Len(r.events)

\* connect moves a linked block onto a connection that holds an ordinary
\* block, and the displaced block is moved twice (off, and onto its new
\* home) before the arriving block is attached.
C20_Witness ==
  \E a \in Usable : \E b \in Usable : \E sup \in {a, b} :
    LET r == call(St, "connect", a, b)
    IN /\ Occupied(a, b, sup)
       /\ ~isShadow(targetBlock(St, sup))
       /\ parent_[getSourceBlock(IF sup = a THEN b ELSE a)] # NoBlock
       /\ Cardinality({i \in 1..Len(r.events) :
                         r.events[i].block = targetBlock(St, sup)}) = 2
       /\ Len(r.attach) >= 2

\* The number of times the call leading to r has reparented the block x.
Reparented(r, x) == Cardinality({i \in 1..Len(r.moves) : r.moves[i].block = x})

\* C21: termination.  On a forest of blocks every connect and every
\* disconnect comes back: the row walk and the stack walk do not run
\* forever, and the cascade of nested calls reparents each block at most
\* twice (off its old parent, onto its new one).
C21_Termination ==
  C3_CycleFree =>
    \A a \in Usable :
      /\ LET r == call(St, "disconnect", a, NoConn)
         IN /\ r.err # "NonTermination"
            /\ \A i \in 1..Len(r.moves) : Reparented(r, r.moves[i].block) <= 2
      /\ \A b \in Usable :
           LET r == call(St, "connect", a, b)
           IN /\ r.err # "NonTermination"
              /\ \A i \in 1..Len(r.moves) : Reparented(r, r.moves[i].block) <= 2

\* On a forest, connect re-homes the displaced block at the end of a row or
\* stack of at least two ordinary blocks, which the walk has gone down.
C21_Witness ==
  /\ C3_CycleFree
  /\ \E a \in Usable : \E b \in Usable : \E sup \in {a, b} :
       LET r == call(St, "connect", a, b)
           x == targetBlock(St, sup)
           new == getSourceBlock(IF sup = a THEN b ELSE a)
       IN /\ Occupied(a, b, sup)
          /\ ~isShadow(x)
          /\ r.parent[x] \notin {NoBlock, new}
          /\ new \in Ancestors(r.parent, x)
          /\ Len(r.moves) >= 3

\* connect_ has thrown because the displaced ordinary block has no output
\* connection (value input) or no previous connection (next connection).
ProtocolViolation(r) ==
  r.err \in {"Orphan block does not have an output connection.",
             "Orphan block does not have a previous connection."}

====
